---- MODULE Spec2Model ----
(***************************************************************************)
(* Model of package errorwrapper, recursive-merge variant                  *)
(* (src/unnamed/part_001).                                                 *)
(*                                                                         *)
(* Strings are sequences of bytes (0..255).  Every Go value that is        *)
(* reached through a pointer (an errWrapper, an errorString, a foreign     *)
(* error) is an object of heap; an address is an index of heap and 0 is    *)
(* nil.                                                                    *)
(***************************************************************************)
EXTENDS Integers, Sequences, FiniteSets, TLC

VARIABLES heap, origin, last

vars == <<heap, origin, last>>

(***************************************************************************)
(* Bounds and input alphabets.  MaxWrappers bounds the errors that         *)
(* NewError and NewErrorString return in one behaviour, MaxDepth the depth *)
(* of a given chain of nested errWrappers.                                 *)
(***************************************************************************)
MaxWrappers == 2
MaxDepth == 2

\* the strings "svc", "api", "disk full", "io", "retry" and ""; the other bytes
\* written are '.' 46, '/' 47, ':' 58, ' ' 32, '[' 91 and ']' 93
svc == <<115, 118, 99>>
api == <<97, 112, 105>>
diskFull == <<100, 105, 115, 107, 32, 102, 117, 108, 108>>
io == <<105, 111>>
retry == <<114, 101, 116, 114, 121>>
empty == <<>>

\* the factories of the components, as <<errJoiner, prefix...>> given to New:
\* the zero joiner and '/', the prefix omitted or given
FactoryConfigs == << <<0, <<svc>>>>, <<47, <<api>>>>, <<0, <<>>>> >>
\* the texts of the errors made outside the package (errors.New(text))
ForeignTexts == <<empty, diskFull>>
\* the variadic msg argument of NewError / NewErrorString
MsgArgs == {<<>>, <<io>>}
\* the errStr argument of NewErrorString
ErrStrArgs == {empty, diskFull}

\* the factories and the arguments of the documented scenarios
ScenarioFactoryConfigs == << <<46, <<svc>>>>, <<46, <<api>>>>, <<46, <<empty>>>> >>
ScenarioStringMsgArgs == {<<io>>}
ScenarioWrapMsgArgs == {<<>>, <<retry>>}
ScenarioErrStrArgs == {empty, diskFull}

\* the fields of the nodes of a given chain of errWrappers
GivenPrefixes == {empty, svc, api}
GivenJoiners == {0, 47}
GivenMsgs == {io}

(***************************************************************************)
(* Program constants.                                                      *)
(***************************************************************************)
defaultErrJoiner == 46
defaultMsgJoiner == <<58, 32>>

(***************************************************************************)
(* Types.                                                                  *)
(***************************************************************************)
errorString(s) == [kind |-> "errorString", s |-> s]

foreignError(s) == [kind |-> "foreign", s |-> s]

errWrapper(err, msg, prefix, errJoiner) ==
    [kind |-> "errWrapper", err |-> err, msg |-> msg, prefix |-> prefix,
     errJoiner |-> errJoiner]

\* the type assertion of err to a pointer to errWrapper
IsErrWrapper(h, err) == err # 0 /\ h[err].kind = "errWrapper"

\* New without the default joiner
New_KeepZeroJoiner(errJoiner, prefix) ==
    errWrapper(0, empty, IF Len(prefix) >= 1 THEN prefix[1] ELSE empty, errJoiner)

(***************************************************************************)
(* New: the factory is itself an errWrapper, with no inner error and no    *)
(* message.                                                                *)
(***************************************************************************)
New(errJoiner, prefix) ==
    errWrapper(0, empty,
               IF Len(prefix) >= 1 THEN prefix[1] ELSE empty,
               IF errJoiner = 0 THEN defaultErrJoiner ELSE errJoiner)

RECURSIVE unwrapRecursively_StopAtEmptyPrefix(_, _, _)
\* unwrapRecursively merging only through the nodes with a non-empty prefix
unwrapRecursively_StopAtEmptyPrefix(h, err, joiner) ==
    IF IsErrWrapper(h, err) /\ h[err].prefix # empty
    THEN LET ew == h[err]
             r == unwrapRecursively_StopAtEmptyPrefix(h, ew.err, joiner)
         IN [prefix |-> ew.prefix
                        \o (IF r.prefix # empty THEN <<joiner>> ELSE empty)
                        \o r.prefix,
             err |-> r.err]
    ELSE [prefix |-> empty, err |-> err]

\* unwrapRecursively merging one level only
unwrapRecursively_OneLevel(h, err, joiner) ==
    IF IsErrWrapper(h, err)
    THEN [prefix |-> h[err].prefix, err |-> h[err].err]
    ELSE [prefix |-> empty, err |-> err]

RECURSIVE unwrapRecursively_NodeJoiner(_, _, _)
\* unwrapRecursively joining with the joiner each node stores
unwrapRecursively_NodeJoiner(h, err, joiner) ==
    IF IsErrWrapper(h, err)
    THEN LET ew == h[err]
             r == unwrapRecursively_NodeJoiner(h, ew.err, joiner)
         IN [prefix |-> ew.prefix
                        \o (IF ew.prefix # empty /\ r.prefix # empty
                            THEN <<ew.errJoiner>> ELSE empty)
                        \o r.prefix,
             err |-> r.err]
    ELSE [prefix |-> empty, err |-> err]

(***************************************************************************)
(* unwrapRecursively: the combined prefix of a chain of errWrappers and    *)
(* the first value of the chain that is no errWrapper.                     *)
(***************************************************************************)
RECURSIVE unwrapRecursively(_, _, _)
unwrapRecursively(h, err, joiner) ==
    IF IsErrWrapper(h, err)
    THEN LET ew == h[err]
             r == unwrapRecursively(h, ew.err, joiner)
         IN [prefix |-> ew.prefix
                        \o (IF ew.prefix # empty /\ r.prefix # empty
                            THEN <<joiner>> ELSE empty)
                        \o r.prefix,
             err |-> r.err]
    ELSE [prefix |-> empty, err |-> err]

\* NewError writing the prefix of the wrapped error before its own
NewError_InnerFirst(h, ew, err, msg) ==
    IF err = 0
    THEN [heap |-> h, ret |-> 0]
    ELSE LET tmpMsg == IF Len(msg) >= 1 THEN msg[1] ELSE empty
             u == unwrapRecursively(h, err, ew.errJoiner)
             sb == u.prefix
                   \o (IF ew.prefix # empty /\ u.prefix # empty
                       THEN <<ew.errJoiner>> ELSE empty)
                   \o ew.prefix
         IN [heap |-> Append(h, errWrapper(u.err, tmpMsg, sb, ew.errJoiner)),
             ret |-> Len(h) + 1]

\* NewError keeping the message of the wrapped error when it gets none
NewError_KeepInnerMsg(h, ew, err, msg) ==
    IF err = 0
    THEN [heap |-> h, ret |-> 0]
    ELSE LET tmpMsg == IF Len(msg) >= 1 THEN msg[1]
                       ELSE IF IsErrWrapper(h, err) THEN h[err].msg
                       ELSE empty
             u == unwrapRecursively(h, err, ew.errJoiner)
             sb == ew.prefix
                   \o (IF ew.prefix # empty /\ u.prefix # empty
                       THEN <<ew.errJoiner>> ELSE empty)
                   \o u.prefix
         IN [heap |-> Append(h, errWrapper(u.err, tmpMsg, sb, ew.errJoiner)),
             ret |-> Len(h) + 1]

\* NewError merging the prefix into the wrapped errWrapper in place
NewError_InPlace(h, ew, err, msg) ==
    IF err = 0
    THEN [heap |-> h, ret |-> 0]
    ELSE LET tmpMsg == IF Len(msg) >= 1 THEN msg[1] ELSE empty
             u == unwrapRecursively(h, err, ew.errJoiner)
             sb == ew.prefix
                   \o (IF ew.prefix # empty /\ u.prefix # empty
                       THEN <<ew.errJoiner>> ELSE empty)
                   \o u.prefix
             hh == IF IsErrWrapper(h, err) THEN [h EXCEPT ![err].prefix = sb] ELSE h
         IN [heap |-> Append(hh, errWrapper(u.err, tmpMsg, sb, ew.errJoiner)),
             ret |-> Len(h) + 1]

(***************************************************************************)
(* NewError, on the heap h with receiver ew (a copy: value receiver).      *)
(* The result is the heap after the call and the returned address.         *)
(***************************************************************************)
NewError(h, ew, err, msg) ==
    IF err = 0
    THEN [heap |-> h, ret |-> 0]
    ELSE LET tmpMsg == IF Len(msg) >= 1 THEN msg[1] ELSE empty
             u == unwrapRecursively(h, err, ew.errJoiner)
             sb == ew.prefix
                   \o (IF ew.prefix # empty /\ u.prefix # empty
                       THEN <<ew.errJoiner>> ELSE empty)
                   \o u.prefix
         IN [heap |-> Append(h, errWrapper(u.err, tmpMsg, sb, ew.errJoiner)),
             ret |-> Len(h) + 1]

\* NewErrorString without the check for the empty string
NewErrorString_NoEmptyCheck(h, ew, errStr, msg) ==
    LET tmpMsg == IF Len(msg) >= 1 THEN msg[1] ELSE empty
    IN [heap |-> h \o <<errorString(errStr),
                        errWrapper(Len(h) + 1, tmpMsg, ew.prefix, 0)>>,
        ret |-> Len(h) + 2]

(***************************************************************************)
(* NewErrorString: allocates the errorString and the errWrapper around it; *)
(* the errJoiner of the result is left at its zero value.                  *)
(***************************************************************************)
NewErrorString(h, ew, errStr, msg) ==
    IF errStr = empty
    THEN [heap |-> h, ret |-> 0]
    ELSE LET tmpMsg == IF Len(msg) >= 1 THEN msg[1] ELSE empty
         IN [heap |-> h \o <<errorString(errStr),
                             errWrapper(Len(h) + 1, tmpMsg, ew.prefix, 0)>>,
             ret |-> Len(h) + 2]

(***************************************************************************)
(* Error: errorString.Error, the Error of a foreign error, and             *)
(* errWrapper.Error; ErrorOf is the call through the error interface.      *)
(***************************************************************************)
RECURSIVE ErrorOf(_, _)
\* Error without the space between the message and the inner error
Error_NoSpace(h, ew) ==
    (IF ew.prefix # empty THEN ew.prefix \o defaultMsgJoiner ELSE empty)
    \o (IF ew.msg # empty THEN <<91>> \o ew.msg \o <<93>> ELSE empty)
    \o (IF ew.err # 0 THEN ErrorOf(h, ew.err) ELSE empty)

Error(h, ew) ==
    LET isMsgFilled == ew.msg # empty
    IN (IF ew.prefix # empty THEN ew.prefix \o defaultMsgJoiner ELSE empty)
       \o (IF isMsgFilled THEN <<91>> \o ew.msg \o <<93>> ELSE empty)
       \o (IF ew.err # 0
           THEN (IF isMsgFilled THEN <<32>> ELSE empty) \o ErrorOf(h, ew.err)
           ELSE empty)

ErrorOf(h, a) ==
    IF h[a].kind = "errWrapper" THEN Error(h, h[a]) ELSE h[a].s

Unwrap(h, a) == h[a].err

(***************************************************************************)
(* The calls.  origin[a] records the call that allocated heap[a]; last is  *)
(* the most recent call with what it returned.                             *)
(***************************************************************************)
Call(op, recv, err, errStr, msg, errJoiner, prefix) ==
    [op |-> op, recv |-> recv, err |-> err, errStr |-> errStr, msg |-> msg,
     errJoiner |-> errJoiner, prefix |-> prefix]

\* what last holds: the method called, its receiver for Error and Unwrap, its
\* err or errStr argument for NewError and NewErrorString, and what it returned
Returned(op, recv, err, errStr, ret, str) ==
    [op |-> op, recv |-> recv, err |-> err, errStr |-> errStr, ret |-> ret, str |-> str]

\* heap[a] was returned by NewError / by NewErrorString / by either
ByNewError(a) == origin[a].op = "NewError"

ByNewErrorString(a) == origin[a].op = "NewErrorString"

Produced(a) == ByNewError(a) \/ ByNewErrorString(a)

\* the errors that NewError and NewErrorString have returned
Wrapped == {a \in DOMAIN heap : Produced(a)}

\* the errWrappers a caller holds: the returned errors and the factories
ErrWrappers == {a \in DOMAIN heap : heap[a].kind = "errWrapper"}

\* the values New has returned
Factories == {a \in DOMAIN heap : origin[a].op = "New"}

\* the addresses a caller can hold as an error value
Errors == DOMAIN heap

\* the number of objects that a call of op has allocated
NumOp(op) == Cardinality({a \in DOMAIN origin : origin[a].op = op})

NumWrappers == NumOp("NewError") + NumOp("NewErrorString")

\* all sequences over S of a length in lo..hi
SeqsOf(S, lo, hi) == UNION {[1..n -> S] : n \in lo..hi}

(***************************************************************************)
(* The state after construction: every component has made its factory with *)
(* New, and the callers hold the errors that were made outside the package *)
(* (errors.New(text)).                                                     *)
(***************************************************************************)
Constructed(configs, texts) ==
    /\ heap = [i \in 1..Len(configs) |-> New(configs[i][1], configs[i][2])]
              \o [i \in 1..Len(texts) |-> foreignError(texts[i])]
    /\ origin = [i \in 1..Len(configs) |->
                    Call("New", 0, 0, empty, <<>>, configs[i][1], configs[i][2])]
                \o [i \in 1..Len(texts) |->
                    Call("foreign", 0, 0, texts[i], <<>>, 0, <<>>)]
    /\ last = Returned("none", 0, 0, empty, 0, empty)

Init == Constructed(FactoryConfigs, ForeignTexts)

DoNewError(f, err, msg) ==
    LET call == Call("NewError", f, err, empty, msg, 0, <<>>)
        r == NewError(heap, heap[f], err, msg)
    IN /\ r.ret # 0 => NumWrappers < MaxWrappers
       /\ heap' = r.heap
       /\ origin' = origin \o [i \in 1..(Len(r.heap) - Len(heap)) |-> call]
       /\ last' = Returned("NewError", 0, err, empty, r.ret, empty)

DoNewErrorString(f, errStr, msg) ==
    LET call == Call("NewErrorString", f, 0, errStr, msg, 0, <<>>)
        r == NewErrorString(heap, heap[f], errStr, msg)
    IN /\ r.ret # 0 => NumWrappers < MaxWrappers
       /\ heap' = r.heap
       /\ origin' = origin \o [i \in 1..(Len(r.heap) - Len(heap)) |->
                                 IF Len(heap) + i = r.ret THEN call
                                 ELSE Call("errorString", 0, 0, errStr, <<>>, 0, <<>>)]
       /\ last' = Returned("NewErrorString", 0, 0, errStr, r.ret, empty)

DoError(a) ==
    /\ last' = Returned("Error", a, 0, empty, 0, ErrorOf(heap, a))
    /\ UNCHANGED <<heap, origin>>

DoUnwrap(a) ==
    /\ heap[a].kind = "errWrapper"
    /\ last' = Returned("Unwrap", a, 0, empty, Unwrap(heap, a), empty)
    /\ UNCHANGED <<heap, origin>>

\* the callers pass nil, the errors from outside and what the calls returned
\* (an errorString comes from Unwrap)
Next ==
    \/ \E f \in Factories, err \in {0} \cup (Errors \ Factories), msg \in MsgArgs : DoNewError(f, err, msg)
    \/ \E f \in Factories, errStr \in ErrStrArgs, msg \in MsgArgs : DoNewErrorString(f, errStr, msg)
    \/ \E a \in Wrapped : DoError(a)
    \/ \E a \in Wrapped : DoUnwrap(a)

Spec == Init /\ [][Next]_vars

(***************************************************************************)
(* The calls of the documented scenarios.                                  *)
(***************************************************************************)
InitScenario == Constructed(ScenarioFactoryConfigs, <<>>)

\* f, which makes errors from strings, and g and h, which wrap errors
ScenarioStringFactories == {a \in Factories : origin[a].prefix = <<svc>>}

ScenarioWrapFactories == {a \in Factories : origin[a].prefix # <<svc>>}

\* here a factory, being an errWrapper with no inner error, is also passed as
\* an error
NextScenario ==
    \/ \E f \in ScenarioWrapFactories, err \in {0} \cup Errors, msg \in ScenarioWrapMsgArgs :
          DoNewError(f, err, msg)
    \/ \E f \in ScenarioStringFactories, errStr \in ScenarioErrStrArgs, msg \in ScenarioStringMsgArgs :
          DoNewErrorString(f, errStr, msg)
    \/ \E a \in ErrWrappers : DoError(a)
    \/ \E a \in ErrWrappers : DoUnwrap(a)

SpecScenario == InitScenario /\ [][NextScenario]_vars

(***************************************************************************)
(* unwrapRecursively and NewError take any error value.  Through the       *)
(* exported calls the err of an errWrapper is never an errWrapper, so the  *)
(* nested chains, on which unwrapRecursively recurses more than once, are  *)
(* given here: one factory, and a chain of depth 0..MaxDepth over a nil or *)
(* errorString terminal, the innermost node first.                         *)
(***************************************************************************)
InitChain ==
    \E c \in 1..Len(FactoryConfigs), t \in 0..1,
       nodes \in SeqsOf(GivenPrefixes \X GivenJoiners \X GivenMsgs, 0, MaxDepth) :
        LET given == Call("given", 0, 0, empty, <<>>, 0, <<>>)
            errJoiner == FactoryConfigs[c][1]
            prefix == FactoryConfigs[c][2]
        IN /\ heap = <<New(errJoiner, prefix)>>
                     \o [i \in 1..t |-> errorString(diskFull)]
                     \o [i \in 1..Len(nodes) |->
                           errWrapper(IF i = 1 THEN (IF t = 1 THEN 2 ELSE 0)
                                      ELSE t + i,
                                      nodes[i][3], nodes[i][1], nodes[i][2])]
           /\ origin = <<Call("New", 0, 0, empty, <<>>, errJoiner, prefix)>>
                       \o [i \in 1..(t + Len(nodes)) |-> given]
           /\ last = Returned("none", 0, 0, empty, 0, empty)

\* NewError is applied to the given chain, and the result read
NextChain ==
    \/ \E f \in Factories, err \in {0} \cup Errors, msg \in MsgArgs :
          NumWrappers = 0 /\ DoNewError(f, err, msg)
    \/ \E a \in ErrWrappers \ Factories : DoError(a)
    \/ \E a \in ErrWrappers \ Factories : DoUnwrap(a)

SpecChain == InitChain /\ [][NextChain]_vars

(***************************************************************************)
(* Vocabulary of the properties.                                           *)
(***************************************************************************)
\* the prefix and the joiner of the factory f, from the arguments New got
FactoryPrefix(f) == IF Len(origin[f].prefix) >= 1 THEN origin[f].prefix[1] ELSE empty

FactoryJoiner(f) == IF origin[f].errJoiner = 0 THEN 46 ELSE origin[f].errJoiner

\* the message a variadic msg argument stands for
MsgArg(msg) == IF msg = <<>> THEN empty ELSE msg[1]

EndsWith(s, suffix) ==
    /\ Len(s) >= Len(suffix)
    /\ SubSeq(s, Len(s) - Len(suffix) + 1, Len(s)) = suffix

Bytes(s) == {s[i] : i \in DOMAIN s}

\* the last call was Error() on the errWrapper heap[last.recv]
ErrorCalled ==
    /\ last.op = "Error"
    /\ heap[last.recv].kind = "errWrapper"

(***************************************************************************)
(* C1: NewError(err) returns nil if and only if err is nil, and            *)
(* NewErrorString(text) returns nil if and only if text is empty; every    *)
(* other input yields a non-nil errWrapper.                                *)
(***************************************************************************)
C1_NilIffNilInput ==
    /\ last.op = "NewError" =>
         /\ (last.ret = 0) <=> (last.err = 0)
         /\ last.ret # 0 => IsErrWrapper(heap, last.ret)
    /\ last.op = "NewErrorString" =>
         /\ (last.ret = 0) <=> (last.errStr = empty)
         /\ last.ret # 0 => IsErrWrapper(heap, last.ret)

C1_Witness ==
    /\ last.op = "NewErrorString"
    /\ last.errStr = empty
    /\ last.ret = 0
    /\ \E a \in DOMAIN heap : Produced(a)

(***************************************************************************)
(* C2: when a factory f (prefix p1, joiner j, which is '.' if New got the  *)
(* zero joiner) wraps with NewError an error produced by a factory g       *)
(* (prefix p2), the prefix of the result is p1 + j + p2 if both are        *)
(* non-empty, p1 if p2 is empty, p2 if p1 is empty, and empty if both are. *)
(* p2 is the prefix of g where g made the error from a string or from an   *)
(* error that is no errWrapper, and the prefix the error carries where g   *)
(* merged it from an errWrapper.                                           *)
(***************************************************************************)
WrappedPrefix(e) ==
    IF ByNewErrorString(e) \/ (ByNewError(e) /\ ~IsErrWrapper(heap, origin[e].err))
    THEN FactoryPrefix(origin[e].recv)
    ELSE heap[e].prefix

C2_MergedPrefix ==
    \A a \in DOMAIN heap :
        (ByNewError(a) /\ IsErrWrapper(heap, origin[a].err)) =>
            LET p1 == FactoryPrefix(origin[a].recv)
                j == FactoryJoiner(origin[a].recv)
                p2 == WrappedPrefix(origin[a].err)
            IN heap[a].prefix =
                 IF p1 # empty /\ p2 # empty THEN p1 \o <<j>> \o p2
                 ELSE IF p2 = empty THEN p1
                 ELSE p2

C2_Witness ==
    \E a \in DOMAIN heap :
        /\ ByNewError(a)
        /\ Produced(origin[a].err)
        /\ origin[origin[a].recv].errJoiner = 0
        /\ FactoryPrefix(origin[a].recv) = svc
        /\ FactoryPrefix(origin[origin[a].err].recv) = api
        /\ heap[a].prefix = svc \o <<46>> \o api

(***************************************************************************)
(* C3: with f = New('.', "svc"), e1 = f.NewErrorString("disk full", "io"), *)
(* g = New('.', "api") and e2 = g.NewError(e1, "retry"), e2.Error() is     *)
(* "svc.api: [retry] disk full".                                           *)
(***************************************************************************)
\* heap[a] is the e1 of the scenario
IsScenarioE1(a) ==
    /\ ByNewErrorString(a)
    /\ origin[a].errStr = diskFull
    /\ origin[a].msg = <<io>>
    /\ origin[origin[a].recv].errJoiner = 46
    /\ origin[origin[a].recv].prefix = <<svc>>

\* heap[a] is the e2 of the scenario
IsScenarioE2(a) ==
    /\ ByNewError(a)
    /\ origin[a].msg = <<retry>>
    /\ origin[origin[a].recv].errJoiner = 46
    /\ origin[origin[a].recv].prefix = <<api>>
    /\ IsScenarioE1(origin[a].err)

InnerString(e) ==
    IF heap[e].kind = "errWrapper" THEN ErrorOf(heap, e) ELSE heap[e].s

C4_Rendering ==
    ErrorCalled =>
        LET ew == heap[last.recv]
            prefixPart == IF ew.prefix = empty THEN empty ELSE ew.prefix \o <<58, 32>>
            msgPart == IF ew.msg = empty THEN empty ELSE <<91>> \o ew.msg \o <<93>>
            innerPart == IF ew.err = 0 THEN empty
                         ELSE IF ew.msg = empty THEN InnerString(ew.err)
                         ELSE <<32>> \o InnerString(ew.err)
        IN /\ last.str = prefixPart \o msgPart \o innerPart
           /\ IsScenarioE1(last.recv) =>
                last.str = svc \o <<58, 32, 91>> \o io \o <<93, 32>> \o diskFull

C4_Witness == ErrorCalled /\ IsScenarioE1(last.recv)

(***************************************************************************)
(* C5: the string Error() gives for an errWrapper that NewError or         *)
(* NewErrorString returned ends neither with the ": " that follows the     *)
(* prefix nor with the space that follows the message.                     *)
(***************************************************************************)
C5_NoTrailingSeparator ==
    (ErrorCalled /\ Produced(last.recv)) =>
        /\ ~EndsWith(last.str, <<58, 32>>)
        /\ ~EndsWith(last.str, <<93, 32>>)

(***************************************************************************)
(* C6: the inner error of every errWrapper that NewError or NewErrorString *)
(* returned is no errWrapper: NewError stores the terminal of the chain it *)
(* was given, Unwrap returns that inner error, and unwrapping repeatedly   *)
(* reaches a value that is no errWrapper in no more steps than the chain   *)
(* of wraps is deep.                                                       *)
(***************************************************************************)
RECURSIVE Terminal(_, _)
\* the first value on the chain from e that is no errWrapper
Terminal(h, e) == IF IsErrWrapper(h, e) THEN Terminal(h, h[e].err) ELSE e

RECURSIVE UnwrapSteps(_, _)
\* how many times Unwrap applies from e before a value that is no errWrapper
UnwrapSteps(h, e) == IF IsErrWrapper(h, e) THEN 1 + UnwrapSteps(h, h[e].err) ELSE 0

RECURSIVE WrapDepth(_)
\* how many wrap calls made heap[a]
WrapDepth(a) ==
    IF ByNewErrorString(a) THEN 1
    ELSE IF ByNewError(a) THEN 1 + WrapDepth(origin[a].err)
    ELSE 0

C6_InnerIsTerminal ==
    /\ \A a \in DOMAIN heap :
         Produced(a) =>
            /\ ~IsErrWrapper(heap, heap[a].err)
            /\ UnwrapSteps(heap, a) <= WrapDepth(a)
    /\ \A a \in DOMAIN heap :
         ByNewError(a) => heap[a].err = Terminal(heap, origin[a].err)
    /\ last.op = "Unwrap" =>
         /\ last.ret = heap[last.recv].err
         /\ Produced(last.recv) => ~IsErrWrapper(heap, last.ret)

C6_Witness ==
    /\ last.op = "Unwrap"
    /\ ByNewError(last.recv)
    /\ Produced(origin[last.recv].err)
    /\ last.ret # 0
    /\ heap[last.ret].kind = "errorString"

(***************************************************************************)
(* C7: the message of the errWrapper that NewError returns is the message  *)
(* given to that call and nothing else: it is empty, and Error() writes no *)
(* bracketed section, when the call got no message, whatever message the   *)
(* wrapped error carries.                                                  *)
(***************************************************************************)
Contains(s, sub) ==
    \E i \in 1..(Len(s) - Len(sub) + 1) : SubSeq(s, i, i + Len(sub) - 1) = sub

C7_OnlyOwnMessage ==
    /\ \A a \in DOMAIN heap :
         ByNewError(a) => heap[a].msg = MsgArg(origin[a].msg)
    /\ (ErrorCalled /\ ByNewError(last.recv)) =>
         LET m == MsgArg(origin[last.recv].msg)
         IN IF m = empty
            THEN 91 \notin Bytes(last.str) /\ 93 \notin Bytes(last.str)
            ELSE /\ Contains(last.str, <<91>> \o m \o <<93>>)
                 /\ Cardinality({i \in DOMAIN last.str : last.str[i] = 91}) = 1

C7_Witness ==
    /\ ErrorCalled
    /\ ByNewError(last.recv)
    /\ origin[last.recv].msg = <<>>
    /\ IsErrWrapper(heap, origin[last.recv].err)
    /\ heap[origin[last.recv].err].msg = io

(***************************************************************************)
(* C8: empty prefixes are transparent.  NewError on a chain of nested      *)
(* errWrappers does not stop at a node with an empty prefix: the prefix of *)
(* the result is the non-empty prefixes, the factory's first and then the  *)
(* chain's from the outside in, with the joiner between them and neither   *)
(* before, after nor doubled; a factory with an empty prefix leaves the    *)
(* prefix of a wrapped error as it is.                                     *)
(***************************************************************************)
RECURSIVE PrefixesOf(_, _)
\* the prefixes of the errWrappers on the chain from e, from the outside in
PrefixesOf(h, e) ==
    IF IsErrWrapper(h, e) THEN <<h[e].prefix>> \o PrefixesOf(h, h[e].err) ELSE <<>>

NonEmpty(ps) == SelectSeq(ps, LAMBDA p : p # empty)

RECURSIVE JoinWith(_, _)
JoinWith(ps, j) ==
    IF Len(ps) = 0 THEN empty
    ELSE IF Len(ps) = 1 THEN ps[1]
    ELSE ps[1] \o <<j>> \o JoinWith(Tail(ps), j)

\* the bytes that are joiners; no prefix of the alphabets holds one
JoinerBytes == {0, 46, 47}

C8_EmptyPrefixTransparent ==
    \A a \in DOMAIN heap :
        ByNewError(a) =>
            LET f == origin[a].recv
                e == origin[a].err
                p == heap[a].prefix
            IN /\ p = JoinWith(NonEmpty(<<FactoryPrefix(f)>> \o PrefixesOf(heap, e)),
                               FactoryJoiner(f))
               /\ ~IsErrWrapper(heap, heap[a].err)
               /\ p # empty =>
                    /\ p[1] \notin JoinerBytes
                    /\ p[Len(p)] \notin JoinerBytes
                    /\ \A i \in 1..(Len(p) - 1) :
                         ~(p[i] \in JoinerBytes /\ p[i + 1] \in JoinerBytes)
               /\ (FactoryPrefix(f) = empty /\ IsErrWrapper(heap, e)
                   /\ ~IsErrWrapper(heap, heap[e].err)) => p = heap[e].prefix

C8_Witness ==
    \E a \in DOMAIN heap :
        /\ ByNewError(a)
        /\ FactoryPrefix(origin[a].recv) = api
        /\ IsErrWrapper(heap, origin[a].err)
        /\ heap[origin[a].err].prefix = empty
        /\ IsErrWrapper(heap, heap[origin[a].err].err)
        /\ heap[heap[origin[a].err].err].prefix = svc
        /\ heap[a].prefix = api \o <<FactoryJoiner(origin[a].recv)>> \o svc

(***************************************************************************)
(* C9: when a factory with joiner j wraps a chain of nested errWrappers,   *)
(* every join of two non-empty prefixes is made with j, whatever joiner    *)
(* the nodes of the chain store, and the errJoiner of the result is j.     *)
(***************************************************************************)
RECURSIVE SumLen(_)
\* the summed length of the strings of ps
SumLen(ps) == IF Len(ps) = 0 THEN 0 ELSE Len(ps[1]) + SumLen(Tail(ps))

C9_OuterJoiner ==
    \A a \in DOMAIN heap :
        ByNewError(a) =>
            LET f == origin[a].recv
                j == FactoryJoiner(f)
                p == heap[a].prefix
                parts == NonEmpty(<<FactoryPrefix(f)>> \o PrefixesOf(heap, origin[a].err))
                n == Len(parts)
            IN /\ heap[a].errJoiner = j
               /\ Len(p) = SumLen(parts) + (IF n = 0 THEN 0 ELSE n - 1)
               \* the byte after the k-th part is the joiner of the factory
               /\ \A k \in 1..(n - 1) : p[SumLen(SubSeq(parts, 1, k)) + k] = j

C9_Witness ==
    \E a \in DOMAIN heap :
        /\ ByNewError(a)
        /\ FactoryJoiner(origin[a].recv) = 46
        /\ FactoryPrefix(origin[a].recv) # empty
        /\ IsErrWrapper(heap, origin[a].err)
        /\ heap[origin[a].err].prefix # empty
        /\ heap[origin[a].err].errJoiner = 47
        /\ IsErrWrapper(heap, heap[origin[a].err].err)
        /\ heap[heap[origin[a].err].err].prefix # empty

(***************************************************************************)
(* C10: no call changes an object that exists: the factories keep their    *)
(* prefix and joiner, an error passed to NewError keeps every field, and   *)
(* Error() of each value gives the same string after any call as before.   *)
(***************************************************************************)
C10_NothingMutated ==
    [][\A a \in DOMAIN heap :
         /\ a \in DOMAIN heap'
         /\ heap'[a] = heap[a]
         /\ ErrorOf(heap', a) = ErrorOf(heap, a)]_vars

C10_Witness ==
    /\ ErrorCalled
    /\ \E b \in DOMAIN heap :
         /\ ByNewError(b)
         /\ origin[b].err = last.recv
         /\ heap[b].prefix # heap[last.recv].prefix

====
